---- MODULE Spec2Model ----
(***************************************************************************)
(* Model of tordown.py: list the files of a torrent, filter them by the    *)
(* month (and year) encoded in the file name, optionally write a torrent   *)
(* holding only the matching files, optionally download them.              *)
(*                                                                         *)
(* Strings that the program inspects (paths, regular expressions, decimal  *)
(* renderings) are sequences of one-character strings.  An optional value  *)
(* (Python None or a value) is a sequence of length 0 or 1.                *)
(***************************************************************************)
EXTENDS Integers, Sequences, FiniteSets, TLC

VARIABLES
    args,                   \* argparse namespace: torrent, month, year, output, download
    pc,                     \* position of the process in main / of a unit call
    env,                    \* outcome of the HTTP fetch and of the torrent parse
    fs,                     \* paths that exist on disk among "local", "temp", "out"
    torrent,                \* torrent.files of the parsed torrent: <<[path, size]>>
    torrent_path,           \* local path of the torrent that was parsed
    files,                  \* list of file dicts built by get_torrent_file_list
    filtered_files,         \* result of filter_by_month
    filtered_torrent_path,  \* "None" or the path save_filtered_torrent returned
    written,                \* files of the torrent stored at "out" (optional)
    dl,                     \* libtorrent session: loaded files, priorities, add/remove counts
    eng,                    \* the engine's current torrent status
    s,                      \* the status sampled by the polling loop
    stdout,
    stderr,
    exit_code,              \* optional: <<>> while running
    call,                   \* arguments of a function called on its own
    ret                     \* its result (optional)

vars == <<args, pc, env, fs, torrent, torrent_path, files, filtered_files,
          filtered_torrent_path, written, dl, eng, s, stdout, stderr, exit_code,
          call, ret>>

----------------------------------------------------------------------------
(* Bounds of the model *)

MaxFiles == 2           \* files in a torrent handed to main
MaxListLen == 2         \* files in a list handed to filter_by_month on its own
SizeWindow == 3         \* byte counts checked on each side of a unit threshold

----------------------------------------------------------------------------
(* Text *)

None == <<>>
Some(v) == <<v>>

Digits == {"0", "1", "2", "3", "4", "5", "6", "7", "8", "9"}
DigitChar == <<"0", "1", "2", "3", "4", "5", "6", "7", "8", "9">>

RECURSIVE NatStr(_)
NatStr(n) == IF n < 10 THEN <<DigitChar[n + 1]>>
             ELSE NatStr(n \div 10) \o <<DigitChar[(n % 10) + 1]>>

\* str(n) / format(n, "d") of a Python int
IntStr(n) == IF n < 0 THEN <<"-">> \o NatStr(-n) ELSE NatStr(n)

\* f"{int(month):02d}": zero-padded to width 2, longer renderings kept
month_str(month) ==
    IF Len(IntStr(month)) >= 2 THEN IntStr(month) ELSE <<"0">> \o IntStr(month)

\* f"{size_bytes:,}": decimal digits in groups of three
RECURSIVE Grouped(_)
Grouped(n) == IF n < 1000 THEN <<NatStr(n)>>
              ELSE LET low == NatStr(n % 1000)
                       pad == IF Len(low) = 1 THEN <<"0", "0">>
                              ELSE IF Len(low) = 2 THEN <<"0">> ELSE <<>>
                   IN  Append(Grouped(n \div 1000), pad \o low)

----------------------------------------------------------------------------
(* format_size *)

KiB == 1024
MiB == 1048576
GiB == 1073741824

\* f"{n/unit:.0f}": the quotient rounded to the nearest integer, ties to even
RoundHalfEven(n, unit) ==
    LET q == n \div unit
        r == n % unit
    IN  IF 2 * r < unit THEN q
        ELSE IF 2 * r > unit THEN q + 1
        ELSE IF q % 2 = 0 THEN q ELSE q + 1

format_size_floor(size_bytes) ==
    IF size_bytes < KiB THEN [num |-> size_bytes, unit |-> "B"]
    ELSE IF size_bytes < MiB
         THEN [num |-> size_bytes \div KiB, unit |-> "KiB"]
    ELSE IF size_bytes < GiB
         THEN [num |-> size_bytes \div MiB, unit |-> "MiB"]
    ELSE [num |-> size_bytes \div GiB, unit |-> "GiB"]

format_size(size_bytes) ==
    IF size_bytes < KiB THEN [num |-> size_bytes, unit |-> "B"]
    ELSE IF size_bytes < MiB
         THEN [num |-> RoundHalfEven(size_bytes, KiB), unit |-> "KiB"]
    ELSE IF size_bytes < GiB
         THEN [num |-> RoundHalfEven(size_bytes, MiB), unit |-> "MiB"]
    ELSE [num |-> RoundHalfEven(size_bytes, GiB), unit |-> "GiB"]

----------------------------------------------------------------------------
(* filter_by_month *)

\* Regular expressions are sequences of tokens: "\\d" is a decimal digit,
\* "\\." a literal dot, "$" the end of the string (or the position before a
\* final newline), any other token the character itself.
TokMatch(tok, c) ==
    IF tok = "\\d" THEN c \in Digits
    ELSE IF tok = "\\." THEN c = "."
    ELSE tok = c

AtEnd(str, i) == i = Len(str) + 1 \/ (i = Len(str) /\ str[i] = "\n")

RECURSIVE MatchHere(_, _, _, _)
MatchHere(pat, k, str, i) ==
    IF k > Len(pat) THEN TRUE
    ELSE IF pat[k] = "$" THEN AtEnd(str, i) /\ MatchHere(pat, k + 1, str, i)
    ELSE /\ i <= Len(str)
         /\ TokMatch(pat[k], str[i])
         /\ MatchHere(pat, k + 1, str, i + 1)

re_search(pat, str) == \E i \in 1..(Len(str) + 1) : MatchHere(pat, 1, str, i)

pattern_unanchored(month, year) ==
    IF year = None
    THEN <<"_", "\\d", "\\d", "\\d", "\\d", "-">> \o month_str(month)
            \o <<"\\.", "z", "s", "t">>
    ELSE <<"_">> \o IntStr(year[1]) \o <<"-">> \o month_str(month)
            \o <<"\\.", "z", "s", "t">>

pattern(month, year) ==
    IF year = None
    THEN <<"_", "\\d", "\\d", "\\d", "\\d", "-">> \o month_str(month)
            \o <<"\\.", "z", "s", "t", "$">>
    ELSE <<"_">> \o IntStr(year[1]) \o <<"-">> \o month_str(month)
            \o <<"\\.", "z", "s", "t", "$">>

RECURSIVE filter_by_month(_, _, _)
filter_by_month(list, month, year) ==
    IF list = <<>> THEN <<>>
    ELSE LET rest == filter_by_month(Tail(list), month, year)
         IN  IF re_search(pattern(month, year), Head(list).path)
             THEN <<Head(list)>> \o rest
             ELSE rest

----------------------------------------------------------------------------
(* get_torrent_file_list *)

IsUrl(torrent_arg) == torrent_arg = "url"   \* startswith(('http://', 'https://'))

\* files.append({...}) for idx, file_info in enumerate(torrent.files, 1)
BuildFiles(t) ==
    [i \in 1..Len(t) |->
        [index |-> i,
         path |-> t[i].path,
         size |-> format_size(t[i].size),
         size_bytes |-> Grouped(t[i].size)]]

----------------------------------------------------------------------------
(* save_filtered_torrent *)

\* list[idx] of a Python list
PyIndex(list, idx) == IF idx >= 0 THEN list[idx + 1] ELSE list[Len(list) + idx + 1]

filtered_indices_off_by_one(filtered) ==
    [k \in 1..Len(filtered) |-> filtered[k].index]

filtered_indices(filtered) ==
    [k \in 1..Len(filtered) |-> filtered[k].index - 1]

RECURSIVE PickFiles(_, _)
PickFiles(original, indices) ==
    IF indices = <<>> THEN <<>>
    ELSE LET idx == Head(indices)
             rest == PickFiles(original, Tail(indices))
         IN  IF idx < Len(original)
             THEN <<[path |-> PyIndex(original, idx).path,
                     size |-> PyIndex(original, idx).size]>> \o rest
             ELSE rest

new_files(original, filtered) == PickFiles(original, filtered_indices(filtered))

----------------------------------------------------------------------------
(* download_filtered_files *)

\* lt.torrent_status states
unknown_state == 0
checking_files == 1
downloading_metadata == 2
downloading == 3
finished == 4
seeding == 5
allocating == 6
checking_resume_data == 7

state_str(state) ==
    IF state = checking_files THEN "checking files"
    ELSE IF state = downloading_metadata THEN "downloading metadata"
    ELSE IF state = downloading THEN "downloading"
    ELSE IF state = finished THEN "finished"
    ELSE IF state = seeding THEN "seeding"
    ELSE IF state = allocating THEN "allocating"
    ELSE IF state = checking_resume_data THEN "checking resume data"
    ELSE "unknown"

\* progress is held in thousandths
ProgressDone == 999

EngStates == [state : unknown_state..checking_resume_data, progress : {0, 998, 999}]

file_indices(filtered) == {filtered[k].index - 1 : k \in 1..Len(filtered)}

file_priorities(num_files, filtered) ==
    [i \in 1..num_files |-> IF (i - 1) \in file_indices(filtered) THEN 1 ELSE 0]

is_seeding(status) == status.state = seeding

alt_complete_strict(status) == status.progress > ProgressDone /\ status.state >= finished

alt_complete(status) == status.progress >= ProgressDone /\ status.state >= finished

----------------------------------------------------------------------------
(* main *)

month_out_of_range_high(month) == month < 1 \/ month > 13

month_out_of_range(month) == month < 1 \/ month > 12

no_files_never(filtered) == FALSE

no_files(filtered) == filtered = <<>>           \* not filtered_files

Line(msg, arg) == [msg |-> msg, arg |-> arg]

Printed(stream, msg) == \E k \in 1..Len(stream) : stream[k].msg = msg

\* print(..., end='') after "\r": the progress line overwrites the previous one
ShowProgress(stream, line) ==
    IF stream # <<>> /\ stream[Len(stream)].msg = "Progress"
    THEN [stream EXCEPT ![Len(stream)] = line]
    ELSE Append(stream, line)

Listing(filtered) ==
    [k \in 1..Len(filtered) |->
        Line("File", <<filtered[k].index, filtered[k].path,
                       filtered[k].size, filtered[k].size_bytes>>)]

\* the files of the torrent stored at a path
TorrentAt(path) == IF path = "out" THEN written[1] ELSE torrent

NoSession == [info |-> <<>>, prio |-> <<>>, added |-> 0, removed |-> 0]
NoStatus == [state |-> unknown_state, progress |-> 0]

sys_exit_status_lost(code) == pc' = "exit" /\ exit_code' = Some(0)

sys_exit(code) == pc' = "exit" /\ exit_code' = Some(code)

----------------------------------------------------------------------------
(* Inputs *)

Stem(year, month) ==
    <<"R", "C", "_">> \o year \o <<"-">> \o month \o <<".", "z", "s", "t">>

Catalogue ==
    { [path |-> Stem(<<"2", "0", "2", "0">>, <<"0", "1">>), size |-> 1536],
      [path |-> Stem(<<"2", "0", "2", "0">>, <<"1", "2">>), size |-> 1073741824],
      [path |-> Stem(<<"2", "0", "2", "1">>, <<"0", "1">>), size |-> 1048575] }

\* file lists with pairwise different paths, up to n files
ListsOver(cat, n) ==
    { q \in UNION { [1..k -> cat] : k \in 0..n } :
        \A i, j \in 1..Len(q) : i # j => q[i].path # q[j].path }

Months == 0..13
Years == {None, Some(2020)}

Args == [torrent : {"url", "local"}, month : Months, year : Years,
         output : BOOLEAN, download : BOOLEAN]

Idle ==
    /\ env = [http |-> "none", parse |-> "none"]
    /\ torrent = <<>>
    /\ torrent_path = "None"
    /\ files = <<>>
    /\ filtered_files = <<>>
    /\ filtered_torrent_path = "None"
    /\ written = None
    /\ dl = NoSession
    /\ eng = NoStatus
    /\ s = NoStatus
    /\ stdout = <<>>
    /\ stderr = <<>>
    /\ exit_code = None

Init ==
    /\ args \in Args
    /\ pc = "main"
    /\ fs = IF IsUrl(args.torrent) THEN {} ELSE {"local"}
    /\ Idle
    /\ call = <<>>
    /\ ret = None

----------------------------------------------------------------------------
(* Steps of main *)

ValidateMonth ==
    /\ pc = "main"
    /\ IF month_out_of_range(args.month)
       THEN /\ stderr' = Append(stderr, Line("Error: Month must be between 1 and 12", <<>>))
            /\ sys_exit(1)
       ELSE /\ pc' = "get_torrent_file_list"
            /\ UNCHANGED <<stderr, exit_code>>
    /\ UNCHANGED <<args, env, fs, torrent, torrent_path, files, filtered_files,
                   filtered_torrent_path, written, dl, eng, s, stdout, call, ret>>

\* get_torrent_file_list, lines 42-45, with download_torrent
ObtainTorrent ==
    /\ pc = "get_torrent_file_list"
    /\ IF IsUrl(args.torrent)
       THEN \E ok \in BOOLEAN :
              IF ok
              THEN /\ env' = [env EXCEPT !.http = "ok"]
                   /\ fs' = fs \cup {"temp"}
                   /\ torrent_path' = "temp"
                   /\ pc' = "parse"
                   /\ UNCHANGED <<stderr, exit_code>>
              ELSE /\ env' = [env EXCEPT !.http = "fail"]
                   /\ stderr' = Append(stderr, Line("Error downloading torrent", <<>>))
                   /\ sys_exit(1)
                   /\ UNCHANGED <<fs, torrent_path>>
       ELSE /\ torrent_path' = args.torrent
            /\ pc' = "parse"
            /\ UNCHANGED <<env, fs, stderr, exit_code>>
    /\ UNCHANGED <<args, torrent, files, filtered_files, filtered_torrent_path,
                   written, dl, eng, s, stdout, call, ret>>

\* get_torrent_file_list, lines 47-70
ParseTorrent ==
    /\ pc = "parse"
    /\ \/ /\ env' = [env EXCEPT !.parse = "fail"]
          /\ stderr' = Append(stderr, Line("Error parsing torrent", <<>>))
          /\ sys_exit(1)
          /\ UNCHANGED <<torrent, files>>
       \/ \E t \in ListsOver(Catalogue, MaxFiles) :
             /\ env' = [env EXCEPT !.parse = "ok"]
             /\ torrent' = t
             /\ files' = BuildFiles(t)
             /\ pc' = "filter"
             /\ UNCHANGED <<stderr, exit_code>>
    /\ UNCHANGED <<args, fs, torrent_path, filtered_files, filtered_torrent_path,
                   written, dl, eng, s, stdout, call, ret>>

\* main, lines 250-264
FilterAndList ==
    /\ pc = "filter"
    /\ LET result == filter_by_month(files, args.month, args.year)
       IN  /\ filtered_files' = result
           /\ IF no_files(result)
              THEN /\ stdout' = Append(stdout, Line("No files found", <<args.month>>))
                   /\ sys_exit(0)
              ELSE /\ stdout' = Append(stdout, Line("Found", <<Len(result)>>))
                                  \o Listing(result)
                   /\ pc' = "save"
                   /\ UNCHANGED exit_code
    /\ UNCHANGED <<args, env, fs, torrent, torrent_path, files, filtered_torrent_path,
                   written, dl, eng, s, stderr, call, ret>>

\* main, lines 267-273, with save_filtered_torrent
SaveFilteredTorrent ==
    /\ pc = "save"
    /\ IF args.output
       THEN LET nf == new_files(torrent, filtered_files)
            IN  IF nf = <<>>
                THEN /\ stderr' = Append(stderr,
                            Line("No files to include in the filtered torrent", <<>>))
                     /\ sys_exit(1)
                     /\ UNCHANGED <<written, fs, filtered_torrent_path, stdout>>
                ELSE /\ written' = Some(nf)
                     /\ fs' = fs \cup {"out"}
                     /\ filtered_torrent_path' = "out"
                     /\ stdout' = Append(stdout, Line("Created filtered torrent", <<>>))
                     /\ pc' = "download"
                     /\ UNCHANGED <<stderr, exit_code>>
       ELSE /\ pc' = "download"
            /\ UNCHANGED <<written, fs, filtered_torrent_path, stdout, stderr, exit_code>>
    /\ UNCHANGED <<args, env, torrent, torrent_path, files, filtered_files,
                   dl, eng, s, call, ret>>

\* main, lines 276-282, with download_filtered_files up to line 182
StartDownload ==
    /\ pc = "download"
    /\ IF args.download
       THEN LET download_path == IF filtered_torrent_path # "None"
                                 THEN filtered_torrent_path ELSE torrent_path
                info == TorrentAt(download_path)
            IN  /\ dl' = [info |-> info,
                          prio |-> file_priorities(Len(info), filtered_files),
                          added |-> dl.added + 1,
                          removed |-> dl.removed]
                /\ eng' \in EngStates
                /\ stdout' = stdout \o <<Line("Starting download", <<Len(filtered_files)>>),
                                         Line("Press Ctrl+C to stop the download", <<>>)>>
                /\ pc' = "poll"
       ELSE /\ pc' = "cleanup"
            /\ UNCHANGED <<dl, eng, stdout>>
    /\ UNCHANGED <<args, env, fs, torrent, torrent_path, files, filtered_files,
                   filtered_torrent_path, written, s, stderr, exit_code, call, ret>>

\* the loop body, lines 186-214
Poll ==
    /\ pc = "poll"
    /\ s' = eng
    /\ IF is_seeding(eng)
       THEN /\ stdout' = Append(stdout, Line("Download complete!", <<>>))
            /\ pc' = "end_session"
       ELSE /\ stdout' = ShowProgress(stdout,
                            Line("Progress", <<eng.progress, state_str(eng.state)>>))
            /\ pc' = "sleep"
    /\ UNCHANGED <<args, env, fs, torrent, torrent_path, files, filtered_files,
                   filtered_torrent_path, written, dl, eng, stderr, exit_code, call, ret>>

\* the loop body after time.sleep(1), lines 216-220
Wake ==
    /\ pc = "sleep"
    /\ IF alt_complete(s)
       THEN /\ stdout' = Append(stdout, Line("Download complete!", <<>>))
            /\ pc' = "end_session"
       ELSE /\ pc' = "poll"
            /\ UNCHANGED stdout
    /\ UNCHANGED <<args, env, fs, torrent, torrent_path, files, filtered_files,
                   filtered_torrent_path, written, dl, eng, s, stderr, exit_code,
                   call, ret>>

\* except KeyboardInterrupt, lines 222-223
KeyboardInterrupt ==
    /\ pc \in {"poll", "sleep"}
    /\ stdout' = Append(stdout, Line("Download stopped by user", <<>>))
    /\ pc' = "end_session"
    /\ UNCHANGED <<args, env, fs, torrent, torrent_path, files, filtered_files,
                   filtered_torrent_path, written, dl, eng, s, stderr, exit_code,
                   call, ret>>

\* the download engine moves on by itself while the loop runs
EngineStep ==
    /\ pc \in {"poll", "sleep"}
    /\ eng' \in EngStates \ {eng}
    /\ UNCHANGED <<args, pc, env, fs, torrent, torrent_path, files, filtered_files,
                   filtered_torrent_path, written, dl, s, stdout, stderr, exit_code,
                   call, ret>>

\* lines 225-227
EndSession ==
    /\ pc = "end_session"
    /\ dl' = [dl EXCEPT !.removed = @ + 1]
    /\ stdout' = Append(stdout, Line("Download session ended", <<>>))
    /\ pc' = "cleanup"
    /\ UNCHANGED <<args, env, fs, torrent, torrent_path, files, filtered_files,
                   filtered_torrent_path, written, eng, s, stderr, exit_code, call, ret>>

\* main, lines 284-286, and the return of main
Cleanup ==
    /\ pc = "cleanup"
    /\ fs' = IF torrent_path # args.torrent /\ torrent_path \in fs
             THEN fs \ {torrent_path} ELSE fs
    /\ sys_exit(0)
    /\ UNCHANGED <<args, env, torrent, torrent_path, files, filtered_files,
                   filtered_torrent_path, written, dl, eng, s, stdout, stderr, call, ret>>

Next ==
    \/ ValidateMonth
    \/ ObtainTorrent
    \/ ParseTorrent
    \/ FilterAndList
    \/ SaveFilteredTorrent
    \/ StartDownload
    \/ Poll
    \/ Wake
    \/ KeyboardInterrupt
    \/ EngineStep
    \/ EndSession
    \/ Cleanup

Spec == Init /\ [][Next]_vars

----------------------------------------------------------------------------
(* format_size called on its own *)

SizeCentres == {0, 512, 1024, 1536, 2560, 1048064, 1048576, 1572864, 2621440,
                1073217536, 1073741824, 1610612736}

Sizes == { n \in UNION { (c - SizeWindow)..(c + SizeWindow) : c \in SizeCentres } : n >= 0 }

NoArgs == [torrent |-> "local", month |-> 1, year |-> None,
           output |-> FALSE, download |-> FALSE]

InitFormatSize ==
    /\ call \in [size_bytes : Sizes]
    /\ ret = None
    /\ pc = "call"
    /\ args = NoArgs
    /\ fs = {}
    /\ Idle

CallFormatSize ==
    /\ pc = "call"
    /\ ret' = Some(format_size(call.size_bytes))
    /\ pc' = "return"
    /\ UNCHANGED <<args, env, fs, torrent, torrent_path, files, filtered_files,
                   filtered_torrent_path, written, dl, eng, s, stdout, stderr,
                   exit_code, call>>

SpecFormatSize == InitFormatSize /\ [][CallFormatSize]_vars

----------------------------------------------------------------------------
(* filter_by_month called on its own *)

NameCatalogue ==
    LET y2020 == <<"2", "0", "2", "0">>
        m01 == <<"0", "1">>
        zst == <<".", "z", "s", "t">>
    IN  { [path |-> Stem(y2020, m01), size |-> 1024],
          [path |-> Stem(y2020, <<"1", "2">>), size |-> 2048],
          [path |-> Stem(<<"2", "0", "2", "1">>, m01), size |-> 3072],
          [path |-> Stem(y2020, m01) \o <<".", "b", "a", "k">>, size |-> 4096],
          [path |-> Stem(y2020, m01) \o <<"\n">>, size |-> 5120],
          [path |-> Stem(y2020, m01) \o <<"\n", "\n">>, size |-> 6144],
          [path |-> Stem(<<"2", "0">>, m01), size |-> 7168],
          [path |-> Stem(<<"1", "2", "0", "2", "0">>, m01), size |-> 8192],
          [path |-> Stem(<<"2", "0", "2", "x">>, m01), size |-> 9216],
          [path |-> Stem(y2020, <<"1">>), size |-> 10240],
          [path |-> <<"R", "C", "_">> \o y2020 \o <<"-">> \o m01 \o <<"x", "z", "s", "t">>,
           size |-> 11264],
          [path |-> <<"R", "C", "-">> \o y2020 \o <<"-">> \o m01 \o zst, size |-> 12288] }

FilterYears == {None, Some(2020), Some(2021), Some(20)}

InitFilterByMonth ==
    /\ \E t \in ListsOver(NameCatalogue, MaxListLen), m \in 1..12, y \in FilterYears :
          call = [files |-> BuildFiles(t), month |-> m, year |-> y]
    /\ ret = None
    /\ pc = "call"
    /\ args = NoArgs
    /\ fs = {}
    /\ Idle

CallFilterByMonth ==
    /\ pc = "call"
    /\ ret' = Some(filter_by_month(call.files, call.month, call.year))
    /\ pc' = "return"
    /\ UNCHANGED <<args, env, fs, torrent, torrent_path, files, filtered_files,
                   filtered_torrent_path, written, dl, eng, s, stdout, stderr,
                   exit_code, call>>

SpecFilterByMonth == InitFilterByMonth /\ [][CallFilterByMonth]_vars

----------------------------------------------------------------------------
(* download_filtered_files: main at line 276 with -d, a local torrent, no -o *)

InitDownload ==
    /\ \E t \in ListsOver(Catalogue, MaxFiles), m \in {1, 12}, y \in Years :
          /\ args = [torrent |-> "local", month |-> m, year |-> y,
                     output |-> FALSE, download |-> TRUE]
          /\ torrent = t
          /\ files = BuildFiles(t)
          /\ filtered_files = filter_by_month(BuildFiles(t), m, y)
          /\ filtered_files # <<>>
          /\ stdout = Append(<<>>, Line("Found", <<Len(filtered_files)>>))
                         \o Listing(filtered_files)
    /\ pc = "download"
    /\ env = [http |-> "none", parse |-> "ok"]
    /\ fs = {"local"}
    /\ torrent_path = "local"
    /\ filtered_torrent_path = "None"
    /\ written = None
    /\ dl = NoSession
    /\ eng = NoStatus
    /\ s = NoStatus
    /\ stderr = <<>>
    /\ exit_code = None
    /\ call = <<>>
    /\ ret = None

NextDownload ==
    \/ StartDownload
    \/ Poll
    \/ Wake
    \/ KeyboardInterrupt
    \/ EngineStep
    \/ EndSession

\* the interpreter keeps running the loop: a sample is taken, sleep(1) ends,
\* the statements after the loop run
LoopRuns ==
    /\ WF_vars(StartDownload)
    /\ WF_vars(Poll)
    /\ WF_vars(Wake)
    /\ WF_vars(EndSession)

SpecDownload == InitDownload /\ [][NextDownload]_vars /\ LoopRuns

----------------------------------------------------------------------------
(* Properties *)

Running == exit_code = None
AfterSave == pc \in {"download", "poll", "sleep", "end_session", "cleanup"}
LoopLeft == pc \in {"end_session", "cleanup", "exit"} /\ dl.added > 0
MonthError == "Error: Month must be between 1 and 12"
NoFilesToInclude == "No files to include in the filtered torrent"

IsMatching(entry) ==
    \E k \in 1..Len(filtered_files) : filtered_files[k].path = entry.path

\* C1: once the download has been started, a file of the torrent loaded by
\* the engine has priority 1 exactly when it is one of the filtered files,
\* and priority 0 otherwise.
Claim_C1 ==
    dl.added > 0 =>
        \A i \in 1..Len(dl.info) :
            /\ dl.prio[i] \in {0, 1}
            /\ dl.prio[i] = 1 <=> IsMatching(dl.info[i])

\* C3: with -o and a non-empty filtered list, the written torrent holds
\* exactly the (path, size) entries of the original torrent that are filtered
\* files, in the original order, and "No files to include" is never reported.
Thm_C3 ==
    /\ ~Printed(stderr, NoFilesToInclude)
    /\ (args.output /\ AfterSave) => written # None
    /\ written # None =>
          /\ args.output
          /\ filtered_files # <<>>
          /\ "out" \in fs
          /\ written[1] = SelectSeq(torrent, IsMatching)
          /\ Len(written[1]) = Len(filtered_files)

Wit_C3 ==
    /\ written # None
    /\ Len(torrent) = 2
    /\ Len(written[1]) = 1
    /\ written[1][1] = torrent[2]

\* C4: an empty filter result prints "No files found", exits with code 0,
\* and neither writes a torrent nor starts a download, whatever -o and -d are.
Thm_C4 ==
    (env.parse = "ok" /\ filtered_files = <<>>) =>
        \/ pc = "filter"
        \/ /\ pc = "exit"
           /\ exit_code = Some(0)
           /\ Printed(stdout, "No files found")
           /\ Len(stdout) = 1
           /\ stderr = <<>>
           /\ written = None
           /\ "out" \notin fs
           /\ dl = NoSession

Wit_C4 ==
    /\ pc = "exit"
    /\ env.parse = "ok"
    /\ filtered_files = <<>>
    /\ torrent # <<>>
    /\ args.output
    /\ args.download

NothingLater == written = None /\ "out" \notin fs /\ dl = NoSession

\* C5 as stated: HTTP failure, parse failure and an empty filter result are
\* each reported on standard error and end the process with a non-zero
\* status, no later step having run.
Claim_C5 ==
    (/\ pc = "exit"
     /\ \/ env.http = "fail"
        \/ env.parse = "fail"
        \/ (env.parse = "ok" /\ filtered_files = <<>>))
    => /\ stderr # <<>>
       /\ exit_code # Some(0)
       /\ NothingLater

\* C5 as amended: HTTP failure and parse failure are reported on standard
\* error and end the process at once with status 1; an empty filter result is
\* reported on standard output and ends the process at once with status 0.
Thm_C5 ==
    /\ env.http = "fail" =>
          /\ pc = "exit"
          /\ exit_code = Some(1)
          /\ Printed(stderr, "Error downloading torrent")
          /\ stdout = <<>>
          /\ env.parse = "none"
          /\ NothingLater
    /\ env.parse = "fail" =>
          /\ pc = "exit"
          /\ exit_code = Some(1)
          /\ Printed(stderr, "Error parsing torrent")
          /\ stdout = <<>>
          /\ NothingLater
    /\ (env.parse = "ok" /\ filtered_files = <<>> /\ pc # "filter") =>
          /\ pc = "exit"
          /\ exit_code = Some(0)
          /\ stderr = <<>>
          /\ Printed(stdout, "No files found")
          /\ NothingLater

Wit_C5 ==
    /\ pc = "exit"
    /\ env.http = "ok"
    /\ env.parse = "fail"
    /\ args.output
    /\ args.download

\* C6: a month outside 1..12 is reported on standard error and exits with
\* status 1 before anything is fetched, parsed, filtered, written or
\* downloaded; a month in 1..12 passes and the torrent is obtained next.
Thm_C6 ==
    /\ (args.month < 1 \/ args.month > 12) =>
          \/ pc = "main" /\ Running
          \/ /\ pc = "exit"
             /\ exit_code = Some(1)
             /\ stderr = <<Line(MonthError, <<>>)>>
             /\ stdout = <<>>
             /\ env = [http |-> "none", parse |-> "none"]
             /\ "temp" \notin fs
             /\ torrent_path = "None"
             /\ files = <<>>
             /\ filtered_files = <<>>
             /\ NothingLater
    /\ (args.month >= 1 /\ args.month <= 12) =>
          /\ ~Printed(stderr, MonthError)
          /\ pc \notin {"main", "get_torrent_file_list"} =>
                (torrent_path # "None" \/ env.http = "fail")

Wit_C6 ==
    /\ pc = "exit"
    /\ args.month = 13
    /\ exit_code = Some(1)
    /\ args.torrent = "url"

\* C7: the loop is left only when the sampled state is finished or seeding or
\* on a keyboard interrupt, and "Download complete!" is never printed while
\* the sampled state is any other state.
Claim_C7 ==
    /\ Printed(stdout, "Download complete!") => s.state \in {finished, seeding}
    /\ LoopLeft =>
          \/ s.state \in {finished, seeding}
          \/ Printed(stdout, "Download stopped by user")

\* C10: at termination the temporary file of a URL torrent no longer exists,
\* and a torrent given as a local path still exists.
Claim_C10 ==
    pc = "exit" =>
        /\ IsUrl(args.torrent) => "temp" \notin fs
        /\ ~IsUrl(args.torrent) => "local" \in fs

----------------------------------------------------------------------------
(* Properties of filter_by_month *)

TwoDigits(m) == <<DigitChar[(m \div 10) + 1], DigitChar[(m % 10) + 1]>>
DotZst == <<".", "z", "s", "t">>

\* str[from..] starts with `_YYYY-MM.zst`: four digits, which are those of y
\* when a year is given
StampAt(str, from, m, y) ==
    /\ from + 11 <= Len(str)
    /\ str[from] = "_"
    /\ \A d \in 1..4 : str[from + d] \in Digits
    /\ y # None => SubSeq(str, from + 1, from + 4) = IntStr(y[1])
    /\ str[from + 5] = "-"
    /\ SubSeq(str, from + 6, from + 7) = TwoDigits(m)
    /\ SubSeq(str, from + 8, from + 11) = DotZst

ContainsStamp(str, m, y) == \E from \in 1..Len(str) : StampAt(str, from, m, y)

\* the path without one final newline
Chomp(str) ==
    IF str # <<>> /\ str[Len(str)] = "\n" THEN SubSeq(str, 1, Len(str) - 1) ELSE str

HasSuffix(str, suffix) ==
    /\ Len(suffix) <= Len(str)
    /\ SubSeq(str, Len(str) - Len(suffix) + 1, Len(str)) = suffix

\* the path ends with `_Y-MM.zst`: Y any four digits, or the decimal digits of
\* y when a year is given
EndsWithStamp(str, m, y) ==
    IF y = None
    THEN /\ Len(str) >= 12
         /\ str[Len(str) - 11] = "_"
         /\ \A d \in 1..4 : str[Len(str) - 11 + d] \in Digits
         /\ HasSuffix(str, <<"-">> \o TwoDigits(m) \o DotZst)
    ELSE HasSuffix(str, <<"_">> \o IntStr(y[1]) \o <<"-">> \o TwoDigits(m) \o DotZst)

\* C2 as stated: filter_by_month returns, unchanged and in order, exactly the
\* entries whose path contains `_YYYY-MM.zst` (YYYY equal to y when given).
Claim_C2 ==
    ret # None =>
        LET Keep(f) == ContainsStamp(f.path, call.month, call.year)
        IN  ret[1] = SelectSeq(call.files, Keep)

\* C2 as amended: filter_by_month returns, unchanged and in order, exactly the
\* entries whose path, one final newline aside, ends with `_Y-MM.zst`, MM the
\* two-digit month and Y any four digits, or the decimal digits of y when a
\* year is given.
Thm_C2 ==
    ret # None =>
        LET Keep(f) == EndsWithStamp(Chomp(f.path), call.month, call.year)
        IN  ret[1] = SelectSeq(call.files, Keep)

Wit_C2 ==
    /\ ret # None
    /\ Len(call.files) = 2
    /\ Len(ret[1]) = 1
    /\ ret[1][1] = call.files[2]
    /\ ContainsStamp(call.files[1].path, call.month, call.year)

----------------------------------------------------------------------------
(* Properties of format_size *)

\* num is n / unit rounded to a whole number
Nearest(num, n, unit) ==
    LET q == n \div unit
        r == n % unit
    IN  /\ num \in {q, q + 1}
        /\ num = q => r <= unit \div 2
        /\ num = q + 1 => r >= unit \div 2

\* C8: the unit is B below 1024, KiB below 1024^2, MiB below 1024^3 and GiB
\* from there on, and the number is the byte count divided by the unit size,
\* rounded to a whole number (the byte count itself for B).
Thm_C8 ==
    ret # None =>
        LET n == call.size_bytes
            r == ret[1]
        IN  /\ n < 1024 => r = [num |-> n, unit |-> "B"]
            /\ (1024 <= n /\ n < 1024 * 1024) =>
                  r.unit = "KiB" /\ Nearest(r.num, n, 1024)
            /\ (1024 * 1024 <= n /\ n < 1024 * 1024 * 1024) =>
                  r.unit = "MiB" /\ Nearest(r.num, n, 1024 * 1024)
            /\ n >= 1024 * 1024 * 1024 =>
                  r.unit = "GiB" /\ Nearest(r.num, n, 1024 * 1024 * 1024)

Wit_C8 ==
    /\ ret # None
    /\ call.size_bytes = 1048575
    /\ ret[1] = [num |-> 1024, unit |-> "KiB"]

----------------------------------------------------------------------------
(* Properties of the polling loop *)

Settled ==
    \/ eng.state = seeding
    \/ eng.state = finished /\ eng.progress >= 999

\* C9: if the engine's status eventually stays seeding, or finished with
\* progress >= 0.999, the loop is eventually left; and whenever
\* download_filtered_files has returned, the torrent has been removed from
\* the session exactly once and "Download session ended" was printed last.
Thm_C9 ==
    /\ (<>[]Settled) => <>LoopLeft
    /\ [](pc \in {"poll", "sleep", "end_session"} => dl.removed = 0)
    /\ [](pc = "cleanup" =>
            /\ dl.removed = 1
            /\ stdout[Len(stdout)].msg = "Download session ended")

Wit_C9 ==
    /\ pc = "cleanup"
    /\ dl.removed = 1
    /\ s.state = finished
    /\ Printed(stdout, "Download complete!")
    /\ Printed(stdout, "Download session ended")

====
